---------------------------- MODULE Spec2Model ----------------------------
(***************************************************************************)
(* Golomb Compressed Set tool (gcstool): the bit I/O layer (bitio.rs),     *)
(* the Golomb coder, GCSBuilder and GCSReader (gcs.rs).                    *)
(*                                                                         *)
(* Representation.  An unsigned machine integer (u8, u64) that takes part  *)
(* in shifting and masking is modelled as the set of the positions of its  *)
(* one bits (bit 0 is the least significant): 5 is {0, 2}, 0 is {} and     *)
(* u64::MAX is 0..63.  Shifts, masks and ORs are then set operations that  *)
(* keep the full 64-bit width.  Counters, hashes and lengths that stay     *)
(* far below 2^31 within the bounds of the model are plain naturals.       *)
(* A file or byte stream is a sequence of bytes, each byte such a set      *)
(* within 0..7.                                                            *)
(*                                                                         *)
(* The variable checked is the build profile: TRUE when the crate is built *)
(* with overflow checks (debug and test profiles: an arithmetic overflow   *)
(* or an over-wide shift panics), FALSE when it is built without (release: *)
(* the result wraps and a shift amount is taken modulo 64).                *)
(***************************************************************************)
EXTENDS Integers, Sequences, FiniteSets, TLC

VARIABLES
    checked,   \* build profile: overflow checks on (TRUE) or off (FALSE)
    builder,   \* builder[k]: GCSBuilder number k (n, p, index_granularity, values)
    io,        \* io[k]: the bytes builder k has written to its sink
    copies,    \* how often builder 2 replays each add() of builder 1
    reader,    \* GCSReader over io[1]
    query,     \* the last exists() call and its result
    bits,      \* a BitWriter / BitReader pair working through a field schedule
    golomb     \* a GolombEncoder and the decode of its output

vars == <<checked, builder, io, copies, reader, query, bits, golomb>>

---------------------------------------------------------------------------
(* Bounds of the model *)

\* longest field schedule of the bit round trip
MaxFields == 3
\* largest value handed to GolombEncoder::encode on its own
MaxGolombValue == 70
\* add() calls with freely chosen hashes
MaxFree == 4
\* add() calls in a run of one repeated hash
MaxRun == 64

\* width of a machine word, the largest nbits bitio accepts
WordBits == 64
\* bits per byte, BitWriter's initial unused count
ByteBits == 8

---------------------------------------------------------------------------
(* Unsigned integers as sets of one-bit positions *)

\* the u64 (or u8) holding the natural n, n < 2^31
U64Of(n) == {i \in 0..30 : (n \div 2^i) % 2 = 1}

RECURSIVE NatOf(_)
\* the natural a bit set stands for (the set must lie within 0..30)
NatOf(x) ==
    IF x = {} THEN 0
    ELSE LET i == CHOOSE j \in x : TRUE IN 2^i + NatOf(x \ {i})

\* x << s on u64: bits shifted past bit 63 are lost
Shl(x, s) == {i + s : i \in {j \in x : j + s < WordBits}}

\* x >> s
Shr(x, s) == {i - s : i \in {j \in x : j >= s}}

\* x as u8
AsU8(x) == x \cap (0..(ByteBits - 1))

\* MASKS[i] = 2^i - 1, the 65-entry table of bitio.rs
MASKS == [i \in 0..WordBits |-> 0..(i - 1)]

RECURSIVE SubBorrow(_, _, _, _)
\* bits i..63 of x - y with an incoming borrow b (ripple borrow, wrapping)
SubBorrow(x, y, i, b) ==
    IF i = WordBits THEN {}
    ELSE LET xi == IF i \in x THEN 1 ELSE 0
             yi == IF i \in y THEN 1 ELSE 0
             d  == xi - yi - b
         IN (IF d % 2 = 1 THEN {i} ELSE {})
                \cup SubBorrow(x, y, i + 1, IF d < 0 THEN 1 ELSE 0)

\* x.wrapping_sub(y) on u64
WrappingSub(x, y) == SubBorrow(x, y, 0, 0)

\* x < y on u64: the highest bit where they differ is y's
U64Less(x, y) ==
    LET d == (x \ y) \cup (y \ x)
    IN d # {} /\ (CHOOSE i \in d : \A j \in d : j <= i) \in y

---------------------------------------------------------------------------
(* bitio.rs: BitWriter *)

\* BitWriter::new, over an empty sink
BitWriterNew == [buffer |-> {}, unused |-> ByteBits, out |-> <<>>]

RECURSIVE write_bits_loop(_, _, _)
\* the while loop and the trailing if of write_bits
write_bits_loop(w, nbits_remaining, value) ==
    IF nbits_remaining >= w.unused
    THEN LET buffer == Shl(w.buffer, w.unused)
                           \cup Shr(value, nbits_remaining - w.unused)
             rem    == nbits_remaining - w.unused
         IN write_bits_loop(
                [buffer |-> {}, unused |-> ByteBits,
                 out |-> Append(w.out, AsU8(buffer))],
                rem, value \cap MASKS[rem])
    ELSE IF nbits_remaining > 0
    THEN [w EXCEPT !.buffer = Shl(w.buffer, nbits_remaining) \cup value,
                   !.unused = w.unused - nbits_remaining]
    ELSE w

\* BitWriter::write_bits(nbits, value): Ok(nbits), or the assertion's panic
write_bits(w, nbits, value) ==
    IF nbits > WordBits
    THEN [st |-> "panic", w |-> w, n |-> 0]
    ELSE [st |-> "ok",
          w  |-> write_bits_loop(w, nbits, value \cap MASKS[nbits]),
          n  |-> nbits]

\* A flush that writes the partial byte as accumulated, low-aligned, without
\* moving it up by the unused count
flush_unshifted(w) ==
    IF w.unused # ByteBits
    THEN [w |-> [w EXCEPT !.unused = ByteBits,
                          !.out = Append(w.out, AsU8(w.buffer))],
          n |-> w.unused]
    ELSE [w |-> w, n |-> 0]

\* BitWriter::flush: pads the partial byte with zeros, returns the pad count
flush(w) ==
    IF w.unused # ByteBits
    THEN [w |-> [w EXCEPT !.unused = ByteBits,
                          !.out = Append(w.out, AsU8(Shl(w.buffer, w.unused)))],
          n |-> w.unused]
    ELSE [w |-> w, n |-> 0]

---------------------------------------------------------------------------
(* bitio.rs: BitReader, reading the byte sequence data from byte pos on *)

\* BitReader::new at byte position pos of its source
BitReaderNew(pos) == [buffer |-> {}, unused |-> 0, pos |-> pos]

RECURSIVE read_bits_loop(_, _, _, _)
\* the while loop and the trailing if of read_bits_u64
read_bits_loop(r, data, ret, rbits) ==
    IF rbits > r.unused
    THEN LET sh == rbits - r.unused
         IN IF sh >= WordBits /\ checked
            THEN [st |-> "panic", val |-> ret, r |-> r]
            ELSE IF r.pos >= Len(data)
            THEN [st |-> "eof", val |-> ret \cup Shl(r.buffer, sh % WordBits),
                  r |-> r]
            ELSE read_bits_loop(
                     [buffer |-> data[r.pos + 1], unused |-> ByteBits,
                      pos |-> r.pos + 1],
                     data, ret \cup Shl(r.buffer, sh % WordBits), sh)
    ELSE IF rbits > 0
    THEN [st  |-> "ok",
          val |-> ret \cup Shr(r.buffer, r.unused - rbits),
          r   |-> [r EXCEPT !.buffer = r.buffer \cap AsU8(MASKS[r.unused - rbits]),
                            !.unused = r.unused - rbits]]
    ELSE [st |-> "ok", val |-> ret, r |-> r]

\* BitReader::read_bits_u64(nbits)
read_bits_u64(r, data, nbits) ==
    IF nbits > WordBits
    THEN [st |-> "panic", val |-> {}, r |-> r]
    ELSE read_bits_loop(r, data, {}, nbits)

\* BitReader::read_bit
read_bit(r, data) == read_bits_u64(r, data, 1)

---------------------------------------------------------------------------
(* gcs.rs: GolombEncoder *)

\* (p as f64).log2().ceil().trunc() as u8: the least k with 2^k >= p; the
\* cast saturates log2(0) = -inf to 0.  Exact for the small p of the model.
Log2P(p) ==
    IF p <= 1 THEN 0
    ELSE CHOOSE k \in 1..30 : 2^(k - 1) < p /\ p <= 2^k

\* GolombEncoder::new over an empty sink
GolombEncoderNew(p) == [p |-> p, log2p |-> Log2P(p), inner |-> BitWriterNew]

\* The two write_bits calls of encode for quotient q and remainder r.
\*   (q + 1) as u8        keeps the low 8 bits of q + 1
\*   1 << (q + 1)         panics under overflow checks when q + 1 >= 64,
\*                        else shifts by (q + 1) mod 64
\*   ... - 2              panics under overflow checks when it underflows,
\*                        else wraps
\* Without overflow checks the result depends on q only through q mod 256.
encode_qr(enc, q, r) ==
    LET nbits == (q + 1) % 256
        one   == Shl(U64Of(1), (q + 1) % WordBits)
        unary == WrappingSub(one, U64Of(2))
    IN IF checked /\ (q + 1 >= WordBits \/ U64Less(one, U64Of(2)))
       THEN [st |-> "panic", enc |-> enc, n |-> 0]
       ELSE LET w1 == write_bits(enc.inner, nbits, unary)
                w2 == write_bits(w1.w, enc.log2p, U64Of(r))
            IN IF w1.st # "ok" THEN [st |-> "panic", enc |-> enc, n |-> 0]
               ELSE IF w2.st # "ok"
               THEN [st |-> "panic", enc |-> [enc EXCEPT !.inner = w1.w], n |-> 0]
               ELSE [st  |-> "ok",
                     enc |-> [enc EXCEPT !.inner = w2.w],
                     n   |-> w1.n + w2.n]

\* GolombEncoder::encode(val): Ok(bits written) or a panic
encode(enc, val) ==
    IF enc.p = 0
    THEN [st |-> "panic", enc |-> enc, n |-> 0]
    ELSE encode_qr(enc, val \div enc.p, val % enc.p)

RECURSIVE Pow2Mod(_, _)
\* 2^k mod m
Pow2Mod(k, m) == IF k = 0 THEN 1 % m ELSE (2 * Pow2Mod(k - 1, m)) % m

\* (2^64 - d) mod m, for 0 < d < 2^64: the wrapped difference, reduced
WrappedMod(d, m) == (Pow2Mod(WordBits, m) + m - (d % m)) % m

\* encode of the wrapped difference 2^64 - d (a u64 subtraction that
\* underflowed by d in a build without overflow checks): its remainder, and
\* its quotient modulo 256, which is all encode_qr reads of it there
encode_wrapped(enc, d) ==
    IF enc.p = 0
    THEN [st |-> "panic", enc |-> enc, n |-> 0]
    ELSE LET r  == WrappedMod(d, enc.p)
             q8 == (WrappedMod(d, 256 * enc.p) - r) \div enc.p
         IN encode_qr(enc, q8, r)

\* GolombEncoder::finish
encoder_finish(enc) ==
    LET f == flush(enc.inner) IN [enc |-> [enc EXCEPT !.inner = f.w], n |-> f.n]

---------------------------------------------------------------------------
(* gcs.rs: GCSBuilder *)

\* u64::checked_mul.  The operands of the model stay below 2^15, so the
\* product always fits and the result is Some(a * b).
checked_mul(a, b) == [some |-> TRUE, val |-> a * b]

\* write_u64::<BigEndian>: the eight bytes of x, most significant first
BigEndian(x) == [k \in 1..8 |-> AsU8(Shr(x, ByteBits * (8 - k)))]

\* read_u64::<BigEndian> of eight bytes
FromBigEndian(bs) == UNION {Shl(bs[k], ByteBits * (8 - k)) : k \in 1..8}

\* b"[GCS:v0]"
GCS_MAGIC == [k \in 1..8 |-> U64Of(<<91, 71, 67, 83, 58, 118, 48, 93>>[k])]

\* self.values.par_iter_mut().for_each(|v| *v %= np), np > 0
normalise(values, np) == [i \in 1..Len(values) |-> values[i] % np]

\* A sort that leaves the values in the order of the add() calls
sort_skipped(s) == s

\* A dedup that removes nothing
dedup_skipped(s) == s

\* slice::par_sort_unstable on u64 (rayon): the ascending arrangement of
\* the elements.  Position i holds the value v with fewer than i elements
\* below it and at least i elements not above it.
par_sort_unstable(s) ==
    [i \in 1..Len(s) |->
        CHOOSE v \in {s[j] : j \in 1..Len(s)} :
            /\ Cardinality({j \in 1..Len(s) : s[j] < v}) < i
            /\ i <= Cardinality({j \in 1..Len(s) : s[j] <= v})]

\* Vec::dedup: keeps the elements that differ from their predecessor
dedup(s) ==
    LET kept == {i \in 1..Len(s) : i = 1 \/ s[i] # s[i - 1]}
    IN [j \in 1..Cardinality(kept) |->
           s[CHOOSE i \in kept : Cardinality({k \in kept : k <= i}) = j]]

\* An index test that also takes the first element, position 0
index_from_zero(g, i) == g > 0 /\ i % g = 0

\* The index test of the encode loop, for the zero-based position i
index_here(g, i) == g > 0 /\ i > 0 /\ i % g = 0

RECURSIVE encode_loop(_, _, _, _)
\* The encode loop of finish from the zero-based position i on; e holds
\* the encoder, last, total_bits and the index built so far.
encode_loop(e, values, g, i) ==
    IF i >= Len(values) \/ e.st # "ok" THEN e
    ELSE LET v == values[i + 1]
             c == IF v >= e.last THEN encode(e.enc, v - e.last)
                  ELSE IF checked THEN [st |-> "panic", enc |-> e.enc, n |-> 0]
                  ELSE encode_wrapped(e.enc, e.last - v)
             total == e.total_bits + c.n
         IN encode_loop(
                [st         |-> c.st,
                 enc        |-> c.enc,
                 last       |-> v,
                 total_bits |-> total,
                 index      |-> IF c.st = "ok" /\ index_here(g, i)
                                THEN Append(e.index, <<v, total>>)
                                ELSE e.index],
                values, g, i + 1)

RECURSIVE index_bytes(_)
\* the index as written: value and bit position, big-endian
index_bytes(index) ==
    IF index = <<>> THEN <<>>
    ELSE BigEndian(U64Of(index[1][1])) \o BigEndian(U64Of(index[1][2]))
             \o index_bytes(Tail(index))

\* the 40-byte footer
footer_bytes(n, p, end_of_data, index_len) ==
    BigEndian(U64Of(n)) \o BigEndian(U64Of(p)) \o BigEndian(U64Of(end_of_data))
        \o BigEndian(U64Of(index_len)) \o GCS_MAGIC

\* The outcome of GCSBuilder::finish on the added values: st is "ok",
\* "err" (n*p overflows) or "panic"; out is what reached the sink.
finish(added, p, g) ==
    LET n   == Len(added)
        np  == checked_mul(n, p)
        bad == [st |-> "panic", n |-> n, values |-> added, index |-> <<>>,
                index_points |-> 0, total_bits |-> 0, end_of_data |-> 0,
                out |-> <<>>]
    IN IF ~np.some THEN [bad EXCEPT !.st = "err"]
       ELSE IF n > 0 /\ np.val = 0 THEN bad          \* v %= 0
       ELSE LET values == dedup(par_sort_unstable(normalise(added, np.val)))
            IN IF g = 0 THEN [bad EXCEPT !.values = values]   \* len / 0
               ELSE LET e == encode_loop(
                                 [st |-> "ok", enc |-> GolombEncoderNew(p),
                                  last |-> 0, total_bits |-> 0, index |-> <<>>],
                                 values, g, 0)
                        f   == encoder_finish(e.enc)
                        eod == e.total_bits + f.n
                        res == [st |-> "ok", n |-> n, values |-> values,
                                index |-> e.index,
                                index_points |-> Len(values) \div g,
                                total_bits |-> e.total_bits,
                                end_of_data |-> eod \div ByteBits,
                                out |-> e.enc.inner.out]
                    IN IF e.st # "ok" \/ eod % ByteBits # 0
                       THEN [res EXCEPT !.st = "panic"]
                       ELSE [res EXCEPT !.out =
                                f.enc.inner.out \o index_bytes(e.index)
                                    \o footer_bytes(n, p, eod \div ByteBits,
                                                    Len(e.index))]

---------------------------------------------------------------------------
(* gcs.rs: GCSReader *)

\* length of the footer in bytes
FooterLen == 40

\* GCSReader::new
ReaderNew ==
    [st |-> "new", n |-> 0, p |-> 0, end_of_data |-> 0, index_len |-> 0,
     index |-> <<>>, log2p |-> 0]

\* the u64 stored big-endian at the zero-based byte offset off of data
u64_at(data, off) == NatOf(FromBigEndian(SubSeq(data, off + 1, off + 8)))

\* GCSReader::initialize over the file data: reads the footer at EOF - 40,
\* checks the magic, then reads index_len entries from end_of_data on,
\* behind the implied entry (0, 0).  st is "ready", or "error" for an I/O
\* error or a wrong magic.
initialize(data) ==
    LET len   == Len(data)
        foot  == len - FooterLen
        n     == u64_at(data, foot)
        p     == u64_at(data, foot + 8)
        eod   == u64_at(data, foot + 16)
        ilen  == u64_at(data, foot + 24)
        magic == SubSeq(data, foot + 33, foot + 40)
    IN IF len < FooterLen THEN [ReaderNew EXCEPT !.st = "error"]
       ELSE IF magic # GCS_MAGIC \/ eod + 16 * ilen > len
       THEN [ReaderNew EXCEPT !.st = "error"]
       ELSE [st |-> "ready", n |-> n, p |-> p, end_of_data |-> eod,
             index_len |-> ilen,
             index |-> <<<<0, 0>>>> \o
                       [i \in 1..ilen |-> <<u64_at(data, eod + 16 * (i - 1)),
                                            u64_at(data, eod + 16 * (i - 1) + 8)>>],
             log2p |-> Log2P(p)]

\* slice::binary_search_by_key on the index, sorted by value: Ok when an
\* entry has the value h, else Err(e) with e the insertion point
binary_search(index, h) ==
    [ok |-> \E i \in 1..Len(index) : index[i][1] = h,
     e  |-> Cardinality({i \in 1..Len(index) : index[i][1] < h})]

\* BitReader::seek(SeekFrom::Start(bit_pos)): seeks the source to byte
\* bit_pos / 8, resets the buffer and consumes bit_pos mod 8 bits
seek(data, bit_pos) ==
    read_bits_u64(BitReaderNew(bit_pos \div ByteBits), data, bit_pos % ByteBits)

\* bits the reader r can still deliver from data
BitsLeft(r, data) == ByteBits * (Len(data) - r.pos) + r.unused

\* One test of `while self.inner.read_bit()? == 1 { last += self.p }`:
\* u holds the reader, last, the status and whether the loop has ended.
unary_step(u, data, p) ==
    LET b == read_bit(u.r, data)
    IN IF b.st # "ok" THEN [u EXCEPT !.st = b.st, !.r = b.r, !.done = TRUE]
       ELSE IF b.val = U64Of(1) THEN [u EXCEPT !.r = b.r, !.last = u.last + p]
       ELSE [u EXCEPT !.r = b.r, !.done = TRUE]

RECURSIVE unary_run(_, _, _, _)
\* up to n tests of the loop, stopping when it ends (the n steps are split
\* in halves to keep the evaluation shallow)
unary_run(u, data, p, n) ==
    IF u.done \/ n = 0 THEN u
    ELSE IF n = 1 THEN unary_step(u, data, p)
    ELSE unary_run(unary_run(u, data, p, n \div 2), data, p, n - n \div 2)

\* the whole loop: it reads a bit at every test, so it ends within
\* BitsLeft + 1 tests
scan_unary(r, data, last, p) ==
    unary_run([st |-> "ok", r |-> r, last |-> last, done |-> FALSE],
              data, p, BitsLeft(r, data) + 1)

\* one pass of the body of the scan loop: decodes one Golomb codeword and
\* adds it to last
decode_one(r, data, last, p, log2p) ==
    LET u == scan_unary(r, data, last, p)
        b == read_bits_u64(u.r, data, log2p)
    IN IF u.st # "ok" THEN [st |-> u.st, r |-> u.r, last |-> u.last]
       ELSE IF b.st # "ok" THEN [st |-> b.st, r |-> b.r, last |-> u.last]
       ELSE [st |-> "ok", r |-> b.r, last |-> u.last + NatOf(b.val)]

\* one test of `while last < h { ... }`
scan_step(c, data, h, p, log2p) ==
    IF c.last < h
    THEN LET d == decode_one(c.r, data, c.last, p, log2p)
         IN [st |-> d.st, r |-> d.r, last |-> d.last, done |-> d.st # "ok"]
    ELSE [c EXCEPT !.done = TRUE]

RECURSIVE scan_run(_, _, _, _, _, _)
\* up to n tests of the scan loop, stopping when it ends
scan_run(c, data, h, p, log2p, n) ==
    IF c.done \/ n = 0 THEN c
    ELSE IF n = 1 THEN scan_step(c, data, h, p, log2p)
    ELSE scan_run(scan_run(c, data, h, p, log2p, n \div 2),
                  data, h, p, log2p, n - n \div 2)

\* the scan loop: every pass reads at least one bit, so it ends within
\* BitsLeft + 1 tests
scan(r, data, last, h, p, log2p) ==
    scan_run([st |-> "ok", r |-> r, last |-> last, done |-> FALSE],
             data, h, p, log2p, BitsLeft(r, data) + 1)

\* GCSReader::exists(target): res is "true", "false", "eof" (the I/O error
\* of a read past the end of the file) or "panic"; inner is the bit reader
\* as the call leaves it
exists(rd, data, target) ==
    LET none == [target |-> target, h |-> 0, inner |-> BitReaderNew(0),
                 last |-> 0, res |-> "panic"]
        np == rd.n * rd.p
    IN IF np = 0 THEN none                               \* target % 0
       ELSE LET h == target % np
                b == binary_search(rd.index, h)
                entry == rd.index[IF b.e = 0 THEN 1 ELSE b.e]
                s == seek(data, entry[2])
                c == scan(s.r, data, entry[1], h, rd.p, rd.log2p)
            IN IF b.ok
               THEN [none EXCEPT !.h = h, !.res = "true"]
               ELSE IF s.st # "ok"
               THEN [target |-> target, h |-> h, inner |-> s.r,
                     last |-> entry[1], res |-> s.st]
               ELSE [target |-> target, h |-> h, inner |-> c.r, last |-> c.last,
                     res |-> IF c.st # "ok" THEN c.st
                             ELSE IF c.last = h THEN "true" ELSE "false"]

\* A seek of the bit stream to bit_pos followed by one pass of the body of
\* the scan loop, started from last = 0: the value of the one codeword
\* decoded there
decode_at(data, bit_pos, p, log2p) ==
    LET s == seek(data, bit_pos)
    IN IF s.st # "ok" THEN [st |-> s.st, r |-> s.r, last |-> 0]
       ELSE decode_one(s.r, data, 0, p, log2p)

---------------------------------------------------------------------------
(* The inputs the model enumerates *)

\* hashes handed to add()
Hashes == {5, 12, 27}
\* hashes handed to add() over and over, in a run of up to MaxRun calls
RunHashes == {63}
\* P, the reciprocal false-positive rate, handed to GCSBuilder::new
Ps == {0, 1, 16}
\* the index granularity handed to GCSBuilder::new
Gs == {0, 1, 2}
\* the element count declared to GCSBuilder::new
DeclaredNs == {0, 4}
\* targets handed to exists()
Targets == {0, 1, 5, 12, 13, 27, 63}

\* the two-build comparison: longest first build, and its inputs
MaxPair == 3
PairHashes == {5, 12, 63}
PairPs == {1, 16}
PairGs == {1, 2}

\* field widths and bit patterns of the bit round trip
Widths == {0, 1, 5, 8, WordBits}
Patterns == {{}, 0..(WordBits - 1), {i \in 0..(WordBits - 1) : i % 3 = 0}}
Fields == {<<n, x \cap MASKS[n]>> : n \in Widths, x \in Patterns}
Schedules == UNION {[1..k -> Fields] : k \in 1..MaxFields}

\* P of the Golomb round trip
GolombPs == {1, 2, 3, 4, 16}

\* number of occurrences of v in the sequence s
Count(s, v) == Cardinality({i \in 1..Len(s) : s[i] = v})

---------------------------------------------------------------------------
(* State *)

BuilderNone ==
    [st |-> "none", n |-> 0, p |-> 0, index_granularity |-> 0, values |-> <<>>,
     declared |-> 0, added |-> <<>>, index |-> <<>>, index_points |-> 0, total_bits |-> 0,
     end_of_data |-> 0]

QueryNone ==
    [target |-> 0, h |-> 0, inner |-> BitReaderNew(0), last |-> 0, res |-> "none"]

BitsIdle ==
    [fields |-> <<>>, w |-> BitWriterNew, written |-> 0, flushed |-> FALSE,
     r |-> BitReaderNew(0), got |-> <<>>, st |-> "idle"]

GolombIdle ==
    [p |-> 0, val |-> 0, st |-> "idle", written |-> 0, out |-> <<>>,
     dec |-> 0, dst |-> "none"]

InitIdle ==
    /\ builder = [k \in 1..2 |-> BuilderNone]
    /\ io = [k \in 1..2 |-> <<>>]
    /\ copies = 0
    /\ reader = ReaderNew
    /\ query = QueryNone
    /\ bits = BitsIdle
    /\ golomb = GolombIdle

---------------------------------------------------------------------------
(* GCSBuilder and GCSReader: the operations *)

\* GCSBuilder::new(io, n, p, index_granularity)
New(k, n, p, g) ==
    /\ builder[k].st = "none"
    /\ builder' = [builder EXCEPT ![k] =
           IF checked_mul(n, p).some
           THEN [BuilderNone EXCEPT !.st = "open", !.n = n, !.p = p,
                                    !.index_granularity = g, !.declared = n]
           ELSE [BuilderNone EXCEPT !.st = "rejected"]]
    /\ UNCHANGED <<checked, io, copies, reader, query, bits, golomb>>

\* GCSBuilder::add(value)
Add(k, v) ==
    /\ builder[k].st = "open"
    /\ builder' = [builder EXCEPT ![k].values = Append(@, v),
                                  ![k].added = Append(@, v)]
    /\ UNCHANGED <<checked, io, copies, reader, query, bits, golomb>>

\* GCSBuilder::finish; the locals index, index_points, total_bits and
\* end_of_data are kept as finish leaves them, and declared and added keep
\* the record of the calls made: the n given to new and the hashes given
\* to add
Finish(k) ==
    /\ builder[k].st = "open"
    /\ \E f \in {finish(builder[k].values, builder[k].p,
                        builder[k].index_granularity)} :
          /\ builder' = [builder EXCEPT ![k] =
                 [st |-> IF f.st = "ok" THEN "done" ELSE f.st,
                  n |-> f.n, p |-> builder[k].p,
                  index_granularity |-> builder[k].index_granularity,
                  values |-> f.values, declared |-> builder[k].declared,
                  added |-> builder[k].added,
                  index |-> f.index, index_points |-> f.index_points,
                  total_bits |-> f.total_bits, end_of_data |-> f.end_of_data]]
          /\ io' = [io EXCEPT ![k] = f.out]
    /\ UNCHANGED <<checked, copies, reader, query, bits, golomb>>

\* GCSReader::new and initialize on the file builder 1 left
Initialize ==
    /\ builder[1].st \in {"done", "panic"}
    /\ reader.st = "new"
    /\ reader' = initialize(io[1])
    /\ UNCHANGED <<checked, builder, io, copies, query, bits, golomb>>

\* GCSReader::exists(target).  Every call starts with a seek from the
\* index, so one call per reader is enumerated.
Exists(target) ==
    /\ reader.st = "ready"
    /\ query.res = "none"
    /\ query' = exists(reader, io[1], target)
    /\ UNCHANGED <<checked, builder, io, copies, reader, bits, golomb>>

\* The add() calls enumerated: up to MaxFree hashes of Hashes in any order,
\* or a run of up to MaxRun times the same hash of RunHashes.
AddAllowed(v) ==
    LET a == builder[1].added
    IN \/ v \in Hashes /\ Len(a) < MaxFree /\ \A i \in 1..Len(a) : a[i] \in Hashes
       \/ v \in RunHashes /\ Len(a) < MaxRun /\ \A i \in 1..Len(a) : a[i] = v

Init ==
    /\ checked \in BOOLEAN
    /\ InitIdle

Next ==
    \/ \E n \in DeclaredNs, p \in Ps, g \in Gs : New(1, n, p, g)
    \/ \E v \in Hashes \cup RunHashes : AddAllowed(v) /\ Add(1, v)
    \/ Finish(1)
    \/ Initialize
    \/ \E t \in Targets : Exists(t)

Spec == Init /\ [][Next]_vars

---------------------------------------------------------------------------
(* Two builds compared: builder 2 is given the add() calls of builder 1 *)
(* again, each copies times and in any order, with the same P and G      *)

\* a second builder with the parameters of the first
NewSame ==
    /\ builder[1].st \in {"done", "panic"}
    /\ New(2, builder[1].declared, builder[1].p, builder[1].index_granularity)

\* v may be the next add() of builder 2.  With copies = 1 builder 2 repeats
\* the add() calls of builder 1 in any order; with copies = 2 it is given
\* the calls of builder 1 in their order and then once more.
ReplayAllowed(v) ==
    IF copies = 1
    THEN Count(builder[2].added, v) < Count(builder[1].added, v)
    ELSE /\ Len(builder[2].added) < 2 * Len(builder[1].added)
         /\ v = builder[1].added[(Len(builder[2].added)
                                      % Len(builder[1].added)) + 1]

ReplayComplete ==
    Len(builder[2].added) = copies * Len(builder[1].added)

InitPair ==
    /\ checked \in BOOLEAN
    /\ builder = [k \in 1..2 |-> BuilderNone]
    /\ io = [k \in 1..2 |-> <<>>]
    /\ copies \in {1, 2}
    /\ reader = ReaderNew
    /\ query = QueryNone
    /\ bits = BitsIdle
    /\ golomb = GolombIdle

NextPair ==
    \/ \E p \in PairPs, g \in PairGs : New(1, 0, p, g)
    \/ \E v \in PairHashes : Len(builder[1].added) < MaxPair /\ Add(1, v)
    \/ Finish(1)
    \/ NewSame
    \/ \E v \in PairHashes : ReplayAllowed(v) /\ Add(2, v)
    \/ ReplayComplete /\ Finish(2)

SpecPair == InitPair /\ [][NextPair]_vars

---------------------------------------------------------------------------
(* The bit round trip: a schedule of fields is written, flushed, and read *)
(* back by a fresh BitReader with the same widths                         *)

\* write_bits of the next field of the schedule
BitWrite ==
    /\ bits.st = "ok" /\ ~bits.flushed /\ bits.written < Len(bits.fields)
    /\ \E c \in {write_bits(bits.w, bits.fields[bits.written + 1][1],
                           bits.fields[bits.written + 1][2])} :
          bits' = [bits EXCEPT !.w = c.w, !.written = @ + 1, !.st = c.st]
    /\ UNCHANGED <<checked, builder, io, copies, reader, query, golomb>>

\* flush after the last field
BitFlush ==
    /\ bits.st = "ok" /\ ~bits.flushed /\ bits.written = Len(bits.fields)
    /\ bits' = [bits EXCEPT !.w = flush(bits.w).w, !.flushed = TRUE]
    /\ UNCHANGED <<checked, builder, io, copies, reader, query, golomb>>

\* read_bits_u64 of the next field, from the bytes the writer produced
BitRead ==
    /\ bits.st = "ok" /\ bits.flushed /\ Len(bits.got) < Len(bits.fields)
    /\ \E c \in {read_bits_u64(bits.r, bits.w.out,
                              bits.fields[Len(bits.got) + 1][1])} :
          bits' = [bits EXCEPT !.r = c.r, !.got = Append(@, c.val), !.st = c.st]
    /\ UNCHANGED <<checked, builder, io, copies, reader, query, golomb>>

InitBits ==
    /\ checked \in BOOLEAN
    /\ builder = [k \in 1..2 |-> BuilderNone]
    /\ io = [k \in 1..2 |-> <<>>]
    /\ copies = 0
    /\ reader = ReaderNew
    /\ query = QueryNone
    /\ bits \in {[BitsIdle EXCEPT !.fields = s, !.st = "ok"] : s \in Schedules}
    /\ golomb = GolombIdle

NextBits == BitWrite \/ BitFlush \/ BitRead

SpecBits == InitBits /\ [][NextBits]_vars

---------------------------------------------------------------------------
(* The Golomb round trip: one value is encoded and flushed, and one       *)
(* codeword is decoded from the bytes by the reader's scan loop body      *)

GolombEncode ==
    /\ golomb.st = "new"
    /\ \E c \in {encode(GolombEncoderNew(golomb.p), golomb.val)} :
       \E f \in {encoder_finish(c.enc)} :
          golomb' = [golomb EXCEPT
              !.st = IF c.st = "ok" THEN "encoded" ELSE c.st,
              !.written = c.n,
              !.out = IF c.st = "ok" THEN f.enc.inner.out ELSE c.enc.inner.out]
    /\ UNCHANGED <<checked, builder, io, copies, reader, query, bits>>

GolombDecode ==
    /\ golomb.st = "encoded"
    /\ \E d \in {decode_one(BitReaderNew(0), golomb.out, 0, golomb.p,
                            Log2P(golomb.p))} :
          golomb' = [golomb EXCEPT !.st = "decoded", !.dec = d.last,
                                   !.dst = d.st]
    /\ UNCHANGED <<checked, builder, io, copies, reader, query, bits>>

InitGolomb ==
    /\ checked \in BOOLEAN
    /\ builder = [k \in 1..2 |-> BuilderNone]
    /\ io = [k \in 1..2 |-> <<>>]
    /\ copies = 0
    /\ reader = ReaderNew
    /\ query = QueryNone
    /\ bits = BitsIdle
    /\ golomb \in {[GolombIdle EXCEPT !.p = p, !.val = v, !.st = "new"] :
                       p \in GolombPs, v \in 0..MaxGolombValue}

NextGolomb == GolombEncode \/ GolombDecode

SpecGolomb == InitGolomb /\ [][NextGolomb]_vars

---------------------------------------------------------------------------
(* Properties *)

\* the set of elements of a sequence
Elems(s) == {s[i] : i \in 1..Len(s)}

\* builder k has run finish to its end
Done(k) == builder[k].st = "done"

\* the file of builder k up to end_of_data, and its index section
Payload(k) == SubSeq(io[k], 1, builder[k].end_of_data)
IndexSection(k) ==
    SubSeq(io[k], builder[k].end_of_data + 1, Len(io[k]) - FooterLen)

\* exists() has been called on a reader of the finished file of builder 1
Queried == Done(1) /\ reader.st = "ready" /\ query.res # "none"

\* C1: no false negatives.  After building from add() calls with P >= 1 and
\* G >= 1, exists(x) on a reader of the file is true for every added x.
C1_NoFalseNegatives ==
    (/\ Queried
     /\ builder[1].p >= 1 /\ builder[1].index_granularity >= 1
     /\ query.target \in Elems(builder[1].added))
        => query.res = "true"

\* Both builds are finished and builder 2 was given every add() of builder 1
\* twice, with the same P and G.
BuiltTwice ==
    /\ copies = 2 /\ Done(1) /\ Done(2)
    /\ \A v \in PairHashes :
           Count(builder[2].added, v) = 2 * Count(builder[1].added, v)

\* C2 as stated: building from S and from S u S gives byte-identical
\* payloads and byte-identical index entries.
C2_DedupIdempotent ==
    BuiltTwice => Payload(2) = Payload(1) /\ IndexSection(2) = IndexSection(1)

\* every added hash of builder 1 is below |S| * P, the modulus that finish
\* derives from the number of add() calls
BelowModulus ==
    \A v \in Elems(builder[1].added) :
        v < Len(builder[1].added) * builder[1].p

\* C2 amended: building from S and from S u S gives byte-identical payloads
\* and index entries when every element of S is below |S| * P (finish
\* reduces modulo the number of add() calls times P, which doubles for
\* S u S).
C2_DedupIdempotentBelowModulus ==
    (BuiltTwice /\ BelowModulus)
        => Payload(2) = Payload(1) /\ IndexSection(2) = IndexSection(1)

\* C2 witness: two finished builds of a collection with a repeated element
\* and two distinct ones, all below the modulus, the second given it twice.
C2_Witness ==
    /\ BuiltTwice /\ BelowModulus
    /\ Len(builder[1].added) = 3
    /\ Cardinality(Elems(builder[1].added)) = 2
    /\ Len(Payload(1)) > 0

\* C3: order independence.  When builder 2 was given the add() calls of
\* builder 1 in some order, the same P and G, and both have run finish,
\* both end alike and have written the same bytes.
C3_OrderIndependent ==
    (/\ copies = 1
     /\ builder[1].st \in {"done", "panic"}
     /\ builder[2].st \in {"done", "panic"}
     /\ \A v \in PairHashes :
            Count(builder[2].added, v) = Count(builder[1].added, v))
        => /\ builder[2].st = builder[1].st
           /\ io[2] = io[1]

\* C3 witness: both builds finished, from three distinct hashes added in
\* different orders, none of them in ascending order.
C3_Witness ==
    /\ copies = 1 /\ Done(1) /\ Done(2)
    /\ Len(builder[1].added) = 3
    /\ Cardinality(Elems(builder[1].added)) = 3
    /\ builder[2].added # builder[1].added
    /\ builder[1].added # builder[1].values
    /\ builder[2].added # builder[2].values
    /\ builder[1].index # <<>>

\* C4: bit round trip.  Every field read back equals the value written,
\* and no read or write fails, for widths 0..64 at any bit offset.
C4_BitRoundTrip ==
    /\ bits.st \in {"idle", "ok"}
    /\ \A i \in 1..Len(bits.got) : bits.got[i] = bits.fields[i][2]

\* C5: Golomb round trip.  encode(v) writes q + 1 + log2p bits and the
\* decode of what it wrote gives v back, for every q (also q >= 63).
C5_GolombRoundTrip ==
    /\ golomb.st # "panic"
    /\ golomb.st \in {"encoded", "decoded"}
           => golomb.written
                  = (golomb.val \div golomb.p) + 1 + Log2P(golomb.p)
    /\ golomb.st = "decoded" => golomb.dst = "ok" /\ golomb.dec = golomb.val

\* finish has run on a builder declared with N = 0 and given no add()
EmptyBuilt ==
    /\ builder[1].st \in {"done", "panic"}
    /\ builder[1].declared = 0 /\ builder[1].added = <<>>
    /\ builder[1].p >= 1 /\ builder[1].index_granularity >= 1

\* C6: the empty set.  finish succeeds and writes the 40-byte footer alone
\* (no payload, no index entry), and exists(x) on a reader of that file
\* returns Ok(false) for every x.
C6_EmptySet ==
    EmptyBuilt
        => /\ Done(1)
           /\ Len(io[1]) = FooterLen
           /\ builder[1].end_of_data = 0 /\ builder[1].index = <<>>
           /\ reader.st # "error"
           /\ query.res \in {"none", "false"}

\* finish has run on the builder of scenario E1
E1Built ==
    /\ builder[1].st \in {"done", "panic"}
    /\ builder[1].declared = 4 /\ builder[1].added = <<5, 12, 5, 27>>
    /\ builder[1].p = 16 /\ builder[1].index_granularity = 2

\* the footer fields of the file of builder 1: N, P, end_of_data, index_len
FooterOf(data) ==
    [k \in 1..4 |-> u64_at(data, Len(data) - FooterLen + 8 * (k - 1))]

\* C7 as stated: E1 gives the payload bytes 0x29, 0x7B, 0x80, one index
\* entry, and a footer with N = 3, P = 16, end_of_data = 3, index_len = 1.
C7_ScenarioE1 ==
    E1Built
        => /\ Done(1)
           /\ Payload(1) = <<U64Of(41), U64Of(123), U64Of(128)>>
           /\ Len(IndexSection(1)) = 16
           /\ FooterOf(io[1]) = <<3, 16, 3, 1>>

\* the file of E1, byte by byte: payload, index entry (27, 15), footer
E1File ==
    [i \in 1..58 |-> U64Of(
        <<41, 222,
          0, 0, 0, 0, 0, 0, 0, 27,   0, 0, 0, 0, 0, 0, 0, 15,
          0, 0, 0, 0, 0, 0, 0, 4,    0, 0, 0, 0, 0, 0, 0, 16,
          0, 0, 0, 0, 0, 0, 0, 2,    0, 0, 0, 0, 0, 0, 0, 1,
          91, 71, 67, 83, 58, 118, 48, 93>>[i])]

\* C7 amended: E1 gives the payload bytes 0x29, 0xDE (15 code bits and one
\* pad bit), the index entry (27, 15), and a footer with N = 4 (the number
\* of add() calls), P = 16, end_of_data = 2, index_len = 1.
C7_ScenarioE1Bytes ==
    E1Built
        => /\ Done(1)
           /\ io[1] = E1File
           /\ Payload(1) = <<U64Of(41), U64Of(222)>>
           /\ FooterOf(io[1]) = <<4, 16, 2, 1>>

\* C7 witness: finish has run to its end on the builder of E1.
C7_Witness == E1Built /\ Done(1) /\ builder[1].values = <<5, 12, 27>>

\* C8: invalid parameters are rejected at construction, so a builder never
\* exists, is added to or finishes with P < 1 or index_granularity = 0.
C8_InvalidRejected ==
    builder[1].st \in {"open", "done", "panic"}
        => builder[1].p >= 1 /\ builder[1].index_granularity >= 1

\* C9: scan past the payload.  When h is above the largest encoded value,
\* exists stops at byte end_of_data and returns Ok(false): it reads no
\* index or footer byte, and returns neither true nor an error.
C9_ScanStopsAtEndOfData ==
    (/\ Queried
     /\ builder[1].values # <<>>
     /\ \A v \in Elems(builder[1].values) : v < query.h)
        => /\ query.res = "false"
           /\ query.inner.pos <= reader.end_of_data

\* C10: after the encode loop the index holds expected_points =
\* (number of deduplicated values) / G entries, for every G >= 1.
C10_IndexSize ==
    (Done(1) /\ builder[1].index_granularity >= 1)
        => Len(builder[1].index) = builder[1].index_points

\* the delta encoded for the element at the one-based position j of the
\* deduplicated values of builder k
Delta(k, j) ==
    builder[k].values[j] - (IF j = 1 THEN 0 ELSE builder[k].values[j - 1])

RECURSIVE BitsThrough(_, _)
\* the bits of the codewords of the first j elements of builder k
BitsThrough(k, j) ==
    IF j = 0 THEN 0
    ELSE BitsThrough(k, j - 1) + (Delta(k, j) \div builder[k].p) + 1
             + Log2P(builder[k].p)

\* the one-based position in the values of the element that the index
\* entry e of builder k was stored for
CheckpointPos(k, e) == e * builder[k].index_granularity + 1

\* the codeword decoded at the bit offset of the index entry e of builder 1
DecodedAtEntry(e) ==
    decode_at(io[1], builder[1].index[e][2], builder[1].p,
              Log2P(builder[1].p))

\* finish has run to its end on builder 1, with P >= 1 and G >= 1
Indexed ==
    Done(1) /\ builder[1].p >= 1 /\ builder[1].index_granularity >= 1

QueriedWithin ==
    /\ Queried
    /\ builder[1].p >= 1 /\ builder[1].index_granularity >= 1
    /\ \E v \in Elems(builder[1].values) : query.h <= v

\* C12: exactness on reduced values.  For h = target mod (N*P) at most the
\* largest reduced value, exists(target) is true exactly when h is a
\* reduced value; h = 0 is reported present only when 0 is one.
C12_ExactOnReduced ==
    QueriedWithin
        => /\ query.res \in {"true", "false"}
           /\ query.res = "true" <=> query.h \in Elems(builder[1].values)

=============================================================================
